---- MODULE Spec2Model ----
(***************************************************************************)
(* A model of conventor.py: the unit registry and convert_units, the       *)
(* credential store (users.json), the feedback store (feedback.json), the  *)
(* per-session state and the handlers of the streamlit forms that call     *)
(* them.                                                                   *)
(***************************************************************************)
EXTENDS Integers, Sequences, FiniteSets, TLC

VARIABLES
    userDb,      \* the file users.json: [kind, doc]
    feedbackDb,  \* the file feedback.json: [kind, doc]
    session,     \* st.session_state of every browser session
    clock,       \* datetime.now(), in ticks
    last,        \* what the last handler did (its inputs and its outcome)
    registered,  \* history: the password of each name's first successful register
    reg,         \* the threads inside register_user (interleaved runs only)
    conv,        \* one evaluation of convert_units and of its way back
    review       \* one evaluation of review_section's filter and sort

vars == <<userDb, feedbackDb, session, clock, last, registered, reg, conv, review>>

(***************************************************************************)
(* Floats.  A float is zero, an infinity, a nan, or s * (n/d) * 10^e with  *)
(* gcd(n,d) = 1 and neither n nor d a multiple of 10.  The mantissa n/d is *)
(* kept exact (a double's rounding error of 2^-53 per operation is left    *)
(* out); the range is a double's: a result of 10^309 or more is inf, and   *)
(* a result below 10^-324 (half the smallest subnormal is 2.47e-324) is 0. *)
(***************************************************************************)
MaxOrder == 308
MinOrder == -324
MinNormalOrder == -307

RECURSIVE GCD(_, _)
GCD(a, b) ==
    IF b = 0 THEN a ELSE GCD(b, a % b)

RECURSIVE P10(_)
P10(k) ==
    IF k <= 0 THEN 1 ELSE 10 * P10(k - 1)

Zero == [k |-> "fin", s |-> 1, n |-> 0, d |-> 1, e |-> 0]
Inf(sg) == [k |-> "inf", s |-> sg, n |-> 0, d |-> 1, e |-> 0]
NaN == [k |-> "nan", s |-> 1, n |-> 0, d |-> 1, e |-> 0]

IsZero(v) == v.k = "fin" /\ v.n = 0
IsNum(v) == v.k = "fin" /\ v.n # 0

RECURSIVE Strip(_, _, _, _)
Strip(sg, n, d, e) ==
    IF n % 10 = 0 THEN Strip(sg, n \div 10, d, e + 1)
    ELSE IF d % 10 = 0 THEN Strip(sg, n, d \div 10, e - 1)
    ELSE [k |-> "fin", s |-> sg, n |-> n, d |-> d, e |-> e]

Norm(sg, n, d, e) ==
    IF n = 0 THEN Zero
    ELSE LET g == GCD(n, d) IN Strip(sg, n \div g, d \div g, e)

\* floor(log10(n/d)) for n, d > 0
RECURSIVE ILog(_, _)
ILog(n, d) ==
    IF n \div 10 >= d THEN ILog(n \div 10, d) + 1
    ELSE IF n < d THEN ILog(n, (d + 9) \div 10) - 1
    ELSE 0

\* the decimal order of magnitude of a nonzero finite float
Order(v) == v.e + ILog(v.n, v.d)

\* a result brought into a double's range
Fl(v) ==
    IF ~IsNum(v) THEN v
    ELSE IF Order(v) > MaxOrder THEN Inf(v.s)
    ELSE IF Order(v) < MinOrder THEN Zero
    ELSE v

Lit(n, e) == Norm(1, n, 1, e)

Mul(a, b) ==
    IF a.k = "nan" \/ b.k = "nan" THEN NaN
    ELSE IF a.k = "inf" \/ b.k = "inf"
         THEN IF IsZero(a) \/ IsZero(b) THEN NaN ELSE Inf(a.s * b.s)
    ELSE IF IsZero(a) \/ IsZero(b) THEN Zero
    ELSE LET g1 == GCD(a.n, b.d)
             g2 == GCD(b.n, a.d)
         IN  Fl(Norm(a.s * b.s, (a.n \div g1) * (b.n \div g2),
                     (a.d \div g2) * (b.d \div g1), a.e + b.e))

\* a / b for a finite nonzero b (every divisor of the program is a registry
\* factor, 5 or 9)
Div(a, b) ==
    IF a.k = "nan" THEN NaN
    ELSE IF a.k = "inf" THEN Inf(a.s * b.s)
    ELSE IF IsZero(a) THEN Zero
    ELSE LET g1 == GCD(a.n, b.n)
             g2 == GCD(b.d, a.d)
         IN  Fl(Norm(a.s * b.s, (a.n \div g1) * (b.d \div g2),
                     (a.d \div g2) * (b.n \div g1), a.e - b.e))

Neg(a) == IF a.k = "nan" \/ IsZero(a) THEN a ELSE [a EXCEPT !.s = -a.s]

Add(a, b) ==
    IF a.k = "nan" \/ b.k = "nan" THEN NaN
    ELSE IF a.k = "inf" THEN (IF b.k = "inf" /\ b.s # a.s THEN NaN ELSE a)
    ELSE IF b.k = "inf" THEN b
    ELSE LET e == IF a.e < b.e THEN a.e ELSE b.e
             g == GCD(a.d, b.d)
             na == a.s * a.n * (b.d \div g) * P10(a.e - e)
             nb == b.s * b.n * (a.d \div g) * P10(b.e - e)
             sum == na + nb
         IN  Fl(Norm(IF sum < 0 THEN -1 ELSE 1,
                     IF sum < 0 THEN -sum ELSE sum,
                     (a.d \div g) * b.d, e))

Sub(a, b) == Add(a, Neg(b))

\* <<floor(n * 10^k / d), the remainder>>, by long division, for k >= 0
RECURSIVE LongDiv(_, _, _)
LongDiv(n, d, k) ==
    IF k <= 0 THEN <<n \div d, n % d>>
    ELSE LET p == LongDiv(n, d, k - 1)
         IN  <<10 * p[1] + (10 * p[2]) \div d, (10 * p[2]) % d>>

\* round(v, 6): to the nearest multiple of 10^-6, ties to even.  A float
\* below 10^-7 rounds to 0.
Round6(v) ==
    IF ~IsNum(v) THEN v
    ELSE IF Order(v) < -7 THEN Zero
    ELSE LET k == v.e + 6
             D == v.d * P10(-k)
             p == LongDiv(v.n, D, k)
             up == 2 * p[2] > D \/ (2 * p[2] = D /\ p[1] % 2 = 1)
         IN  Norm(v.s, IF up THEN p[1] + 1 ELSE p[1], 1, -6)

\* a = b as numbers (two normal forms may denote one number)
EqNum(a, b) ==
    IF IsNum(a) /\ IsNum(b)
    THEN /\ a.s = b.s
         /\ Order(a) = Order(b)
         /\ Div(a, [b EXCEPT !.s = 1]) = Lit(1, 0)
    ELSE a.k = b.k /\ a.s = b.s /\ a.n = b.n

\* |a - b| <= 10^-6 * |b|
Within1e6(a, b) ==
    \/ EqNum(a, b)
    \/ /\ IsNum(a) /\ IsNum(b) /\ a.s = b.s
       /\ Order(a) - Order(b) \in {-1, 0, 1}
       /\ LET q == Div(a, [b EXCEPT !.s = 1])
              k == q.e + 6
              p == LongDiv(q.n, q.d * P10(-k), k)
          IN  \/ p[1] \in {999999, 1000000}
              \/ p[1] = 1000001 /\ p[2] = 0

(***************************************************************************)
(* The unit registry and convert_units.  unit_conversions holds the linear *)
(* categories; the lambdas of its Temperature entry are to_base and        *)
(* from_base.                                                              *)
(***************************************************************************)
None == "None"

unit_conversions ==
    [Energy    |-> [J |-> Lit(1, 0), eV |-> Lit(160218, -24), Ha |-> Lit(435974, -23)],
     Length    |-> [m |-> Lit(1, 0), nm |-> Lit(1, -9), A |-> Lit(1, -10),
                    feet |-> Lit(3048, -4)],
     Time      |-> [s |-> Lit(1, 0), fs |-> Lit(1, -15), day |-> Lit(86400, 0)],
     Frequency |-> [Hz |-> Lit(1, 0), THz |-> Lit(1, 12)],
     Mass      |-> [kg |-> Lit(1, 0), amu |-> Lit(166054, -32),
                    pounds |-> Lit(453592, -6)],
     Speed     |-> ("m/s" :> Lit(1, 0)) @@ ("mph" :> Lit(44704, -5))
                    @@ ("km/h" :> Lit(277778, -6))]

TemperatureUnits == {"C", "F", "K"}

\* the lambdas of unit_conversions["Temperature"]
to_base(unit, x) ==
    CASE unit = "C" -> x
      [] unit = "F" -> Div(Mul(Sub(x, Lit(32, 0)), Lit(5, 0)), Lit(9, 0))
      [] unit = "K" -> Sub(x, Lit(27315, -2))

from_base(unit, x) ==
    CASE unit = "C" -> x
      [] unit = "F" -> Add(Div(Mul(x, Lit(9, 0)), Lit(5, 0)), Lit(32, 0))
      [] unit = "K" -> Add(x, Lit(27315, -2))

\* the keys of unit_conversions, and of unit_conversions[unit_type]
Categories == DOMAIN unit_conversions \cup {"Temperature"}

UnitsOf(unit_type) ==
    IF unit_type = "Temperature" THEN TemperatureUnits
    ELSE DOMAIN unit_conversions[unit_type]

\* what a call returns: a float, None, or an exception that leaves the call
Value(v) == [tag |-> "value", val |-> v]
NoneResult == [tag |-> "None", val |-> Zero]
Raised(exc) == [tag |-> exc, val |-> Zero]

\* the integer part of a float that is not negative; a double of 2^53 or
\* more is an integer
Floor(v) ==
    IF ~IsNum(v) THEN v
    ELSE IF Order(v) < 0 THEN Zero
    ELSE IF Order(v) >= 16 \/ (v.d = 1 /\ v.e >= 0) THEN v
    ELSE Norm(v.s, LongDiv(v.n, v.d * P10(-v.e), v.e)[1], 1, 0)

\* Scale with // in the place of /
ScaleFloorDivide(value, from_unit, to_unit, factors) ==
    Floor(Div(Mul(value, factors[to_unit]), factors[from_unit]))

\* the linear branch's scaling, lines 201-203, for units of the category
Scale(value, from_unit, to_unit, factors) ==
    Div(Mul(value, factors[to_unit]), factors[from_unit])

convert_units(value, from_unit, to_unit, unit_type) ==
    IF unit_type = "Temperature"
    THEN IF from_unit \in TemperatureUnits /\ to_unit \in TemperatureUnits
         THEN Value(Round6(from_base(to_unit, to_base(from_unit, value))))
         ELSE NoneResult                        \* except KeyError: return None
    ELSE IF unit_type \notin DOMAIN unit_conversions
         THEN Raised("KeyError")                \* unit_conversions[unit_type]
         ELSE LET factors == unit_conversions[unit_type]
              IN  IF from_unit \in DOMAIN factors /\ to_unit \in DOMAIN factors
                  THEN Value(Scale(value, from_unit, to_unit, factors))
                  ELSE NoneResult

(***************************************************************************)
(* Files.  A file is missing, holds a JSON document, or holds bytes that   *)
(* json.load rejects: nothing (opened for writing and not written yet) or  *)
(* a document followed by the tail of a longer one.  size is its length in *)
(* bytes.                                                                  *)
(***************************************************************************)
EmptyDoc == <<>>

MissingFile == [kind |-> "missing", doc |-> EmptyDoc, size |-> 0]
TruncatedFile == [kind |-> "truncated", doc |-> EmptyDoc, size |-> 0]
JsonFile(doc, size) == [kind |-> "json", doc |-> doc, size |-> size]
GarbageFile(size) == [kind |-> "garbage", doc |-> EmptyDoc, size |-> size]

RECURSIVE SumOver(_, _)
SumOver(S, f) ==
    IF S = {} THEN 0
    ELSE LET x == CHOOSE y \in S : TRUE IN f[x] + SumOver(S \ {x}, f)

(***************************************************************************)
(* The credential store.                                                   *)
(***************************************************************************)
ADMIN_USER == "admin@quantum.com"

\* hashlib.sha256(password.encode()).hexdigest(), taken as injective
hash_password(password) == <<"sha256", password>>

\* the length of json.dump(users, f, indent=2): per entry the name, the role,
\* the 64 digits of the hash and 46 bytes of keys, quotes and indentation
EntryOverhead == 110

UsersSize(users) ==
    IF DOMAIN users = {} THEN 2
    ELSE 4 + 2 * (Cardinality(DOMAIN users) - 1)
           + SumOver(DOMAIN users,
                     [u \in DOMAIN users |->
                         Len(u) + Len(users[u].role) + EntryOverhead])

load_users(db) ==
    IF db.kind = "json" THEN db.doc ELSE EmptyDoc

\* a write that replaces the file whatever it holds
WriteUsersWhole(db, users) == JsonFile(users, UsersSize(users))

\* the file after open(USER_DB, "w"), and after json.dump and the close
\* that flushes it: the document written over the file from its start
OpenForWrite(db) == TruncatedFile

WriteUsers(db, users) ==
    IF db.size > UsersSize(users) THEN GarbageFile(db.size)
    ELSE JsonFile(users, UsersSize(users))

save_users(db, users) == WriteUsers(OpenForWrite(db), users)

NewAccount(password) == [password |-> hash_password(password), role |-> "user"]

\* users[username] = {...}
SetKey(users, key, val) ==
    [k \in DOMAIN users \cup {key} |-> IF k = key THEN val ELSE users[k]]

\* register_user that stores the new account over an existing one
register_user_overwrite(db, username, password) ==
    [ret |-> username \notin DOMAIN load_users(db),
     db |-> save_users(db, SetKey(load_users(db), username, NewAccount(password)))]

\* register_user: what it returns, and the file it leaves
register_user(db, username, password) ==
    LET users == load_users(db)
    IN  IF username \in DOMAIN users
        THEN [ret |-> FALSE, db |-> db]
        ELSE [ret |-> TRUE,
              db |-> save_users(db, SetKey(users, username, NewAccount(password)))]

\* an account, or Python's None
Some(user) == <<user>>
NoUser == <<>>

\* authenticate_user that does not compare the password
authenticate_user_any_password(db, username, password) ==
    IF username \in DOMAIN load_users(db) THEN Some(load_users(db)[username])
    ELSE NoUser

\* authenticate_user: the account, or None
authenticate_user(db, username, password) ==
    LET users == load_users(db)
    IN  IF username \in DOMAIN users
           /\ users[username].password = hash_password(password)
        THEN Some(users[username])
        ELSE NoUser

(***************************************************************************)
(* The feedback store and the list of the reviews tab.                     *)
(***************************************************************************)
FeedbackFile(doc) == [kind |-> "json", doc |-> doc, size |-> 0]

\* TextBlob(feedback).sentiment: a function of the text alone
analyze_sentiment(feedback) ==
    [polarity |-> <<"polarity", feedback>>,
     subjectivity |-> <<"subjectivity", feedback>>]

\* save_feedback that writes the new record alone
save_feedback_overwrite(db, username, feedback, rating, now) ==
    FeedbackFile(<<[id |-> <<"sha256", username, now>>,
                    username |-> username,
                    feedback |-> feedback,
                    rating |-> rating,
                    sentiment |-> analyze_sentiment(feedback),
                    timestamp |-> now,
                    visible |-> TRUE]>>)

\* save_feedback at the time now: the file it leaves
save_feedback(db, username, feedback, rating, now) ==
    LET feedbacks == IF db.kind = "json" THEN db.doc ELSE <<>>
    IN  FeedbackFile(Append(feedbacks,
            [id |-> <<"sha256", username, now>>,
             username |-> username,
             feedback |-> feedback,
             rating |-> rating,
             sentiment |-> analyze_sentiment(feedback),
             timestamp |-> now,
             visible |-> TRUE]))

\* f['visible'] = True for a record without the key
FillVisible(f) ==
    [key \in DOMAIN f \cup {"visible"} |->
        IF key = "visible" /\ "visible" \notin DOMAIN f THEN TRUE ELSE f[key]]

load_feedback(db) ==
    IF db.kind = "json" THEN [i \in DOMAIN db.doc |-> FillVisible(db.doc[i])]
    ELSE <<>>

RECURSIVE Reverse(_)
Reverse(seq) ==
    IF seq = <<>> THEN <<>> ELSE Append(Reverse(Tail(seq)), Head(seq))

\* x put into the sorted sequence after every element whose key is not larger
RECURSIVE InsertByKey(_, _, _)
InsertByKey(sorted, x, key) ==
    IF sorted = <<>> THEN <<x>>
    ELSE IF Head(sorted)[key] <= x[key]
         THEN <<Head(sorted)>> \o InsertByKey(Tail(sorted), x, key)
         ELSE <<x>> \o sorted

\* a stable ascending sort by the key
RECURSIVE SortAscending(_, _)
SortAscending(seq, key) ==
    IF seq = <<>> THEN <<>>
    ELSE InsertByKey(SortAscending(SubSeq(seq, 1, Len(seq) - 1), key),
                     seq[Len(seq)], key)

\* a descending sort that also reverses the order of equal keys
sort_reverse_unstable(seq, key) == Reverse(SortAscending(seq, key))

\* list.sort(key=..., reverse=True): the list is reversed, sorted stably in
\* ascending order and reversed again, which keeps equal keys in their order
sort_reverse(seq, key) == Reverse(SortAscending(Reverse(seq), key))

MinRatings == 1..5
SortOrders == {"Newest First", "Highest Rating"}

\* review_section: the records it renders, in their order
review_list(db, min_rating, sort_order) ==
    LET feedbacks == load_feedback(db)
        Keep(f) == f.rating >= min_rating /\ f.visible
        filtered == SelectSeq(feedbacks, Keep)
    IN  IF sort_order = "Highest Rating"
        THEN sort_reverse(filtered, "rating")
        ELSE sort_reverse(filtered, "timestamp")

(***************************************************************************)
(* Evaluations of convert_units: a call, and the call that converts its    *)
(* result back.                                                            *)
(***************************************************************************)
MaxMantissa == 3

LinearExponents == {-310, -300, -1, 0, 2, 297}
TemperatureExponents == {-1, 0, 2}

\* number_input(min_value=0.0): the values a call is given
ValuesFor(unit_type) ==
    {Zero} \cup {Lit(m, e) : m \in 1..MaxMantissa,
                 e \in IF unit_type = "Temperature" THEN TemperatureExponents
                       ELSE LinearExponents}

LinearUnits == UNION {DOMAIN unit_conversions[c] : c \in DOMAIN unit_conversions}
UnitInputs == LinearUnits \cup TemperatureUnits \cup {"parsec"}
CategoryInputs == Categories \cup {"Pressure"}

ConvInputs ==
    {[value |-> v, from_unit |-> f, to_unit |-> t, unit_type |-> c,
      step |-> "input", result |-> NoneResult, back |-> NoneResult] :
        v \in UNION {ValuesFor(c0) : c0 \in {"Temperature", "Energy"}},
        f \in UnitInputs, t \in UnitInputs, c \in CategoryInputs}

NoConv ==
    [value |-> Zero, from_unit |-> "J", to_unit |-> "J", unit_type |-> "Energy",
     step |-> "unused", result |-> NoneResult, back |-> NoneResult]

\* the message a handler shows (st.success, st.error), and to which session;
\* for REGISTER also the name and the password it was given
Shown(sid, message) ==
    [sid |-> sid, message |-> message, username |-> None, password |-> None]

NoOp == Shown(None, None)

NoReview == [step |-> "unused", min_rating |-> 1, sort_order |-> "Newest First",
             shown |-> <<>>]

InitConv ==
    /\ conv \in {c \in ConvInputs : c.value \in ValuesFor(c.unit_type)}
    /\ userDb = MissingFile
    /\ feedbackDb = MissingFile
    /\ session = <<>>
    /\ clock = 0
    /\ last = NoOp
    /\ registered = EmptyDoc
    /\ reg = <<>>
    /\ review = NoReview

Convert ==
    /\ conv.step = "input"
    /\ conv' = [conv EXCEPT
           !.step = "converted",
           !.result = convert_units(conv.value, conv.from_unit, conv.to_unit,
                                    conv.unit_type)]
    /\ UNCHANGED <<userDb, feedbackDb, session, clock, last, registered, reg, review>>

ConvertBack ==
    /\ conv.step = "converted"
    /\ conv.result.tag = "value"
    /\ conv' = [conv EXCEPT
           !.step = "returned",
           !.back = convert_units(conv.result.val, conv.to_unit, conv.from_unit,
                                  conv.unit_type)]
    /\ UNCHANGED <<userDb, feedbackDb, session, clock, last, registered, reg, review>>

NextConv == Convert \/ ConvertBack

SpecConv == InitConv /\ [][NextConv]_vars

(***************************************************************************)
(* The application: browser sessions whose handlers run one after another. *)
(***************************************************************************)
MaxFeedback == 2
MinPasswordLength == 8

Sessions == {"s1", "s2"}
Usernames == {ADMIN_USER, "alice"}
Passwords == {"longpassword", "otherpassword", "wrong"}
Roles == {"user", "admin"}
Bodies == {"Great tool!"}
RatingInputs == {2, 5}

LoggedOut == [authenticated |-> FALSE, username |-> None]

Init ==
    /\ userDb = MissingFile
    /\ feedbackDb = MissingFile
    /\ session = [s \in Sessions |-> LoggedOut]
    /\ clock = 0
    /\ last = NoOp
    /\ registered = EmptyDoc
    /\ reg = <<>>
    /\ conv = NoConv
    /\ review = NoReview

\* login_section, LOGIN pressed
Login(s, username, password) ==
    /\ ~session[s].authenticated
    /\ LET user == authenticate_user(userDb, username, password)
       IN  /\ session' = IF user # NoUser
                         THEN [session EXCEPT ![s] = [authenticated |-> TRUE,
                                                      username |-> username]]
                         ELSE session
           /\ last' = Shown(s, IF user # NoUser THEN "Login Successful!"
                                ELSE "Invalid Credentials")
    /\ UNCHANGED <<userDb, feedbackDb, clock, registered, reg, conv, review>>

\* login_section, REGISTER pressed
Register(s, username, password) ==
    /\ ~session[s].authenticated
    /\ IF Len(password) >= MinPasswordLength
       THEN LET r == register_user(userDb, username, password)
            IN  /\ userDb' = r.db
                /\ last' = [Shown(s, IF r.ret THEN "Registration Successful!"
                                       ELSE "Username Already Exists")
                               EXCEPT !.username = username, !.password = password]
                /\ registered' = IF r.ret /\ username \notin DOMAIN registered
                                 THEN SetKey(registered, username, password)
                                 ELSE registered
       ELSE /\ last' = Shown(s, "Password Must Be 8+ Characters")
            /\ UNCHANGED <<userDb, registered>>
    /\ UNCHANGED <<feedbackDb, session, clock, reg, conv, review>>

\* Logout that clears the flag and keeps the name
LogoutKeepsUsername(s) ==
    /\ session[s].authenticated
    /\ session' = [session EXCEPT ![s].authenticated = FALSE]
    /\ last' = Shown(s, "Logout")
    /\ UNCHANGED <<userDb, feedbackDb, clock, registered, reg, conv, review>>

\* main, Logout pressed
Logout(s) ==
    /\ session[s].authenticated
    /\ session' = [session EXCEPT ![s] = LoggedOut]
    /\ last' = Shown(s, "Logout")
    /\ UNCHANGED <<userDb, feedbackDb, clock, registered, reg, conv, review>>

\* feedback_section, SUBMIT pressed; datetime.now() is later at every call
SubmitFeedback(s, feedback, rating) ==
    /\ session[s].authenticated       \* main renders the tabs only then
    /\ Len(load_feedback(feedbackDb)) < MaxFeedback
    /\ clock' = clock + 1
    /\ IF session[s].authenticated
       THEN /\ feedbackDb' = save_feedback(feedbackDb, session[s].username,
                                           feedback, rating, clock + 1)
            /\ last' = Shown(s, "Feedback Submitted!")
       ELSE /\ last' = Shown(s, "Please Login to Submit Feedback")
            /\ UNCHANGED feedbackDb
    /\ UNCHANGED <<userDb, session, registered, reg, conv, review>>

\* whether admin_panel renders its controls for the session
admin_panel_open(s) == session[s].username = ADMIN_USER

\* admin_panel, Save User Changes pressed on a table whose Role cells were
\* edited to roles
SaveUserChanges(s, roles) ==
    /\ session[s].authenticated       \* main renders the tabs only then
    /\ admin_panel_open(s)
    /\ LET users == load_users(userDb)
       IN  /\ roles \in [DOMAIN users -> Roles]
           /\ userDb' = save_users(userDb,
                  [u \in DOMAIN users |-> [users[u] EXCEPT !.role = roles[u]]])
    /\ last' = Shown(s, "User Roles Updated!")
    /\ UNCHANGED <<feedbackDb, session, clock, registered, reg, conv, review>>

Next ==
    \/ \E s \in Sessions, u \in Usernames, p \in Passwords : Login(s, u, p)
    \/ \E s \in Sessions, u \in Usernames, p \in Passwords : Register(s, u, p)
    \/ \E s \in Sessions : Logout(s)
    \/ \E s \in Sessions, f \in Bodies, r \in RatingInputs : SubmitFeedback(s, f, r)
    \/ \E s \in Sessions :
           \E roles \in [DOMAIN load_users(userDb) -> Roles] : SaveUserChanges(s, roles)

Spec == Init /\ [][Next]_vars

(***************************************************************************)
(* The reviews tab over a stored feedback.json of any content.             *)
(***************************************************************************)
MaxStored == 3

StoredRatings == {2, 5}
StoredTimestamps == {1, 2}
StoredVisible == {"true", "false", "absent"}
StoredShapes == StoredRatings \X StoredTimestamps \X StoredVisible

\* the i-th record of a stored file; a record of the older schema has no
\* visible key
StoredRecord(i, shape) ==
    LET base == [id |-> i, username |-> "alice", feedback |-> "Great tool!",
                 rating |-> shape[1], sentiment |-> analyze_sentiment("Great tool!"),
                 timestamp |-> shape[2]]
    IN  IF shape[3] = "absent" THEN base
        ELSE [key \in DOMAIN base \cup {"visible"} |->
                 IF key = "visible" THEN shape[3] = "true" ELSE base[key]]

StoredFiles ==
    {MissingFile, GarbageFile(1)} \cup
    {FeedbackFile([i \in 1..n |-> StoredRecord(i, shapes[i])]) :
        n \in 0..MaxStored, shapes \in [1..MaxStored -> StoredShapes]}

InitReview ==
    /\ feedbackDb \in StoredFiles
    /\ review = [NoReview EXCEPT !.step = "input"]
    /\ userDb = MissingFile
    /\ session = <<>>
    /\ clock = 0
    /\ last = NoOp
    /\ registered = EmptyDoc
    /\ reg = <<>>
    /\ conv = NoConv

\* review_section rendered with the two select boxes set
Review(min_rating, sort_order) ==
    /\ review.step = "input"
    /\ review' = [step |-> "listed", min_rating |-> min_rating,
                  sort_order |-> sort_order,
                  shown |-> review_list(feedbackDb, min_rating, sort_order)]
    /\ UNCHANGED <<userDb, feedbackDb, session, clock, last, registered, reg, conv>>

NextReview == \E m \in MinRatings, o \in SortOrders : Review(m, o)

SpecReview == InitReview /\ [][NextReview]_vars

(***************************************************************************)
(* register_user run by two threads at once: the load, the open that       *)
(* truncates and the write are steps of their own.                         *)
(***************************************************************************)
Threads == {"t1", "t2"}
RacePasswords == {"longpassword"}

Idle == [pc |-> "idle", username |-> None, password |-> None, users |-> EmptyDoc,
         ret |-> None]

InitRace ==
    /\ userDb \in {MissingFile,
                   JsonFile(SetKey(EmptyDoc, "carol", NewAccount("longpassword")),
                            UsersSize(SetKey(EmptyDoc, "carol",
                                             NewAccount("longpassword"))))}
    /\ reg = [thread |-> [t \in Threads |-> Idle], log |-> <<>>]
    /\ feedbackDb = MissingFile
    /\ session = <<>>
    /\ clock = 0
    /\ last = NoOp
    /\ registered = EmptyDoc
    /\ conv = NoConv
    /\ review = NoReview

RaceRest == <<feedbackDb, session, clock, last, registered, conv, review>>

\* register_user(username, password) is called
RegCall(t, username, password) ==
    /\ reg.thread[t].pc = "idle"
    /\ reg' = [reg EXCEPT !.thread[t] = [Idle EXCEPT !.pc = "called",
                                                      !.username = username,
                                                      !.password = password]]
    /\ UNCHANGED <<userDb, RaceRest>>

\* users = load_users(); the test of the name; users[username] = {...}
RegLoad(t) ==
    /\ reg.thread[t].pc = "called"
    /\ LET users == load_users(userDb)
           me == reg.thread[t]
       IN  reg' = [reg EXCEPT
               !.log = Append(@, <<t, "load">>),
               !.thread[t] =
                   IF me.username \in DOMAIN users
                   THEN [me EXCEPT !.pc = "done", !.ret = FALSE]
                   ELSE [me EXCEPT !.pc = "loaded",
                                   !.users = SetKey(users, me.username,
                                                    NewAccount(me.password))]]
    /\ UNCHANGED <<userDb, RaceRest>>

\* save_users: with open(USER_DB, "w") as f
RegOpen(t) ==
    /\ reg.thread[t].pc = "loaded"
    /\ userDb' = OpenForWrite(userDb)
    /\ reg' = [reg EXCEPT !.log = Append(@, <<t, "open">>),
                          !.thread[t].pc = "opened"]
    /\ UNCHANGED RaceRest

\* save_users: json.dump and the end of the with block; return True
RegWrite(t) ==
    /\ reg.thread[t].pc = "opened"
    /\ userDb' = WriteUsers(userDb, reg.thread[t].users)
    /\ reg' = [reg EXCEPT !.log = Append(@, <<t, "write">>),
                          !.thread[t].pc = "done",
                          !.thread[t].ret = TRUE]
    /\ UNCHANGED RaceRest

NextRace ==
    \/ \E t \in Threads, u \in Usernames, p \in RacePasswords : RegCall(t, u, p)
    \/ \E t \in Threads : RegLoad(t)
    \/ \E t \in Threads : RegOpen(t)
    \/ \E t \in Threads : RegWrite(t)

SpecRace == InitRace /\ [][NextRace]_vars

(***************************************************************************)
(* Properties of the credential store, the feedback store and the session. *)
(***************************************************************************)
Users == load_users(userDb)
FeedbackDoc(db) == IF db.kind = "json" THEN db.doc ELSE <<>>

\* C1: register on a store that holds the name already returns False
\* (Username Already Exists) whatever the password, and leaves users.json as
\* it was.
C1_RegisterExisting ==
    [][\A s \in Sessions, u \in Usernames, p \in Passwords :
          (Register(s, u, p) /\ Len(p) >= MinPasswordLength /\ u \in DOMAIN Users)
              => /\ userDb' = userDb
                 /\ last'.message = "Username Already Exists"]_vars

C1_Witness ==
    /\ last.message = "Username Already Exists"
    /\ last.username \in DOMAIN Users
    /\ Cardinality(DOMAIN Users) = 2
    /\ Users[last.username].password # hash_password(last.password)
    /\ Users[last.username].password = hash_password(registered[last.username])

\* C2: from an empty store and with the handlers run one after another,
\* authenticate(u, p) succeeds exactly when the first successful register of
\* u used the password p, and no registered account is ever removed.
C2_AuthenticateIff ==
    /\ \A u \in Usernames, p \in Passwords :
          authenticate_user(userDb, u, p) # NoUser
              <=> (u \in DOMAIN registered /\ registered[u] = p)
    /\ DOMAIN registered = DOMAIN Users

C2_Witness ==
    /\ last.message = "Login Successful!"
    /\ LET u == session[last.sid].username
       IN  /\ Users[u].role = "admin"
           /\ authenticate_user(userDb, u, registered[u]) = Some(Users[u])
           /\ \E v \in DOMAIN Users : v # u /\ registered[v] # registered[u]

\* the record a SUBMIT of session s appends
IsRecordOf(f, s, feedback, rating) ==
    /\ f.username = session[s].username
    /\ f.feedback = feedback
    /\ f.rating = rating
    /\ f.visible = TRUE

C7_Step ==
    LET old == FeedbackDoc(feedbackDb)
        new == FeedbackDoc(feedbackDb')
    IN  /\ \A s \in Sessions, f \in Bodies, r \in RatingInputs :
              SubmitFeedback(s, f, r)
                  => /\ Len(new) = Len(old) + 1
                     /\ SubSeq(new, 1, Len(old)) = old
                     /\ IsRecordOf(new[Len(new)], s, f, r)
        /\ feedbackDb' # feedbackDb
              => \E s \in Sessions, f \in Bodies, r \in RatingInputs :
                     SubmitFeedback(s, f, r)

C7_Listed ==
    LET doc == FeedbackDoc(feedbackDb)
    IN  /\ \A i \in DOMAIN doc, m \in MinRatings :
              m <= doc[i].rating
                  => \E j \in DOMAIN review_list(feedbackDb, m, "Newest First") :
                         review_list(feedbackDb, m, "Newest First")[j] = doc[i]
        /\ \A i, j \in DOMAIN doc : i < j => doc[i].timestamp < doc[j].timestamp

\* C7: every submit appends one record with the session's name, the text and
\* the rating, visible, at the end of feedback.json and changes no other
\* record; the records stay in submission order and each one is in
\* list(minRating <= its rating, NewestFirst).
C7_AppendOnly == []C7_Listed /\ [][C7_Step]_vars

C7_Witness ==
    LET doc == FeedbackDoc(feedbackDb)
    IN  /\ Len(doc) = 2
        /\ doc[1].username # doc[2].username
        /\ doc[1].rating > doc[2].rating
        /\ last.message = "Feedback Submitted!"
        /\ review_list(feedbackDb, 1, "Newest First") = <<doc[2], doc[1]>>

\* C8: an account's role changes only by the act of a session logged in as
\* an account whose stored role is admin.
C8_AdminOnly ==
    [][\A u \in DOMAIN Users :
          (u \in DOMAIN load_users(userDb') /\ load_users(userDb')[u].role # Users[u].role)
              => \E s \in Sessions :
                     /\ session[s].authenticated
                     /\ session[s].username \in DOMAIN Users
                     /\ Users[session[s].username].role = "admin"
                     /\ last'.sid = s
                     /\ last'.message = "User Roles Updated!"]_vars

C10_Inv ==
    \A s \in Sessions : session[s].authenticated <=> session[s].username # None

C10_Step ==
    /\ \A s \in Sessions :
          (~session[s].authenticated /\ session'[s].authenticated)
              => \E u \in Usernames, p \in Passwords :
                     /\ Login(s, u, p)
                     /\ authenticate_user(userDb, u, p) # NoUser
                     /\ session'[s].username = u
    /\ \A s \in Sessions, u \in Usernames, p \in Passwords :
          Register(s, u, p) => session' = session
    /\ \A s \in Sessions : Logout(s) => session'[s] = LoggedOut
    /\ feedbackDb' # feedbackDb
          => \E s \in Sessions :
                 /\ session[s].authenticated
                 /\ last'.sid = s
                 /\ LET new == FeedbackDoc(feedbackDb')
                    IN  new[Len(new)].username = session[s].username

\* C10: a session is authenticated exactly when it has a username; it
\* becomes authenticated only by a LOGIN whose authenticate_user call
\* succeeded for that name, never by a REGISTER; logout resets both fields;
\* and a feedback record is saved only by an authenticated session, under
\* that session's username.
C10_SessionInvariant == []C10_Inv /\ [][C10_Step]_vars

C10_Witness ==
    /\ last.message = "Feedback Submitted!"
    /\ session[last.sid].authenticated
    /\ FeedbackDoc(feedbackDb)[Len(FeedbackDoc(feedbackDb))].username
           = session[last.sid].username
    /\ \E s \in Sessions : session[s] = LoggedOut

\* C6: the list holds exactly the stored records that are visible (a record
\* without the flag counts as visible) and rated min_rating or more, each
\* once; under Highest Rating it is ordered by rating, highest first, and
\* records of equal rating keep their stored order; under Newest First it
\* is ordered by timestamp, latest first.
C6_ListFilteredSorted ==
    review.step = "listed" =>
        LET stored == FeedbackDoc(feedbackDb)
            shown == review.shown
            Wanted(f) == /\ f.rating >= review.min_rating
                         /\ ("visible" \in DOMAIN f => f.visible)
        IN  /\ \A i \in DOMAIN stored :
                  Wanted(stored[i])
                      <=> \E j \in DOMAIN shown : shown[j] = FillVisible(stored[i])
            /\ \A j \in DOMAIN shown :
                  \E i \in DOMAIN stored : shown[j] = FillVisible(stored[i])
            /\ \A j, k \in DOMAIN shown : j < k => shown[j].id # shown[k].id
            /\ review.sort_order = "Highest Rating"
                  => \A j, k \in DOMAIN shown :
                         j < k => \/ shown[j].rating > shown[k].rating
                                  \/ /\ shown[j].rating = shown[k].rating
                                     /\ shown[j].id < shown[k].id
            /\ review.sort_order = "Newest First"
                  => \A j, k \in DOMAIN shown :
                         j < k => shown[j].timestamp >= shown[k].timestamp

C6_Witness ==
    /\ review.step = "listed"
    /\ review.sort_order = "Highest Rating"
    /\ review.min_rating = 3
    /\ Len(FeedbackDoc(feedbackDb)) = 3
    /\ "visible" \notin DOMAIN FeedbackDoc(feedbackDb)[1]
    /\ FeedbackDoc(feedbackDb)[2].rating = 2
    /\ Len(review.shown) = 2
    /\ review.shown[1].id = 1
    /\ review.shown[2].id = 3
    /\ review.shown[1].timestamp < review.shown[2].timestamp

\* the place of a thread's step in the order of the steps taken
StepAt(t, step) == CHOOSE i \in DOMAIN reg.log : reg.log[i] = <<t, step>>

\* two register calls for two different names that the store did not hold,
\* both loaded before either opened the file, both returned
RacedRegisters(a, b) ==
    /\ a # b
    /\ reg.thread[a].pc = "done" /\ reg.thread[b].pc = "done"
    /\ reg.thread[a].username # reg.thread[b].username
    /\ reg.thread[a].username \notin DOMAIN reg.thread[b].users
    /\ reg.thread[b].username \notin DOMAIN reg.thread[a].users
    /\ <<a, "write">> \in {reg.log[i] : i \in DOMAIN reg.log}
    /\ <<b, "write">> \in {reg.log[i] : i \in DOMAIN reg.log}
    /\ StepAt(a, "load") < StepAt(b, "open")
    /\ StepAt(b, "load") < StepAt(a, "open")
    /\ StepAt(a, "write") < StepAt(b, "write")      \* b saved last

\* C9 as stated: both calls report success and the final store holds the
\* account of the call that saved last and not the other one.
C9_LastWriterWins ==
    \A a, b \in Threads :
        RacedRegisters(a, b)
            => /\ reg.thread[a].ret = TRUE /\ reg.thread[b].ret = TRUE
               /\ reg.thread[b].username \in DOMAIN Users
               /\ reg.thread[a].username \notin DOMAIN Users

\* C9 amended: both calls report success and the account of the call that
\* saved first is lost.  The file holds the document of the call that saved
\* last, except when that call opened the file before the other one wrote
\* and its document is the shorter one: then the bytes left behind it make
\* the file malformed, and the store loads as empty.
C9_LastWriterWinsOrMalformed ==
    \A a, b \in Threads :
        RacedRegisters(a, b)
            => /\ reg.thread[a].ret = TRUE /\ reg.thread[b].ret = TRUE
               /\ reg.thread[a].username \notin DOMAIN Users
               /\ IF /\ StepAt(b, "open") < StepAt(a, "write")
                     /\ UsersSize(reg.thread[b].users) < UsersSize(reg.thread[a].users)
                  THEN userDb.kind = "garbage" /\ Users = EmptyDoc
                  ELSE /\ userDb.kind = "json"
                       /\ Users = reg.thread[b].users
                       /\ reg.thread[b].username \in DOMAIN Users

C9_Witness ==
    \E a, b \in Threads :
        /\ RacedRegisters(a, b)
        /\ StepAt(b, "open") < StepAt(a, "write")
        /\ userDb.kind = "json"
        /\ DOMAIN Users = {"carol", reg.thread[b].username}

(***************************************************************************)
(* Properties of convert_units.                                            *)
(***************************************************************************)
KnownCall ==
    /\ conv.unit_type \in Categories
    /\ conv.from_unit \in UnitsOf(conv.unit_type)
    /\ conv.to_unit \in UnitsOf(conv.unit_type)

LinearCall == KnownCall /\ conv.unit_type # "Temperature"

Factor(unit) == unit_conversions[conv.unit_type][unit]

\* a float safely inside the range of the normal doubles
Normal(v) == IsNum(v) /\ Order(v) >= MinNormalOrder /\ Order(v) < MaxOrder

\* the first five significant digits of a nonzero finite float
Digits5(v) == LongDiv(v.n, v.d * P10(ILog(v.n, v.d) - 4), 4 - ILog(v.n, v.d))[1]

\* C3: a call whose category is not in the registry, or whose source or
\* target unit is not a unit of the category, returns None and raises nothing.
C3_UnknownReturnsNone ==
    (conv.step = "converted" /\ ~KnownCall) => conv.result = NoneResult

\* C4: convert(100, "J", "eV", "Energy") is about 6.2415e20: a value converted
\* from the joule to the unit of factor f = 1.60218e-19 is value / f.
C4_JouleToEv ==
    (/\ conv.step = "converted"
     /\ conv.value = Lit(1, 2)
     /\ conv.from_unit = "J"
     /\ conv.to_unit = "eV"
     /\ conv.unit_type = "Energy")
        => /\ conv.result.tag = "value"
           /\ Order(conv.result.val) = 20
           /\ Digits5(conv.result.val) \in {62414, 62415}
           /\ EqNum(conv.result.val, Div(conv.value, Factor("eV")))

\* C5 as stated: for every value x >= 0 and units A, B of a linear category,
\* convert(convert(x, A, B), B, A) is x within a relative error of 10^-6.
C5_RoundTripEveryValue ==
    (conv.step = "returned" /\ LinearCall)
        => conv.back.tag = "value" /\ Within1e6(conv.back.val, conv.value)

\* C5 amended: the round trip gives x back when x is 0, or when x and every
\* product and quotient on the way are normal doubles (none underflows, none
\* overflows).
C5_RoundTripInRange ==
    (/\ conv.step = "returned"
     /\ LinearCall
     /\ \/ IsZero(conv.value)
        \/ /\ Normal(conv.value)
           /\ Normal(Mul(conv.value, Factor(conv.to_unit)))
           /\ Normal(conv.result.val)
           /\ Normal(Mul(conv.result.val, Factor(conv.from_unit))))
        => conv.back.tag = "value" /\ EqNum(conv.back.val, conv.value)

C5_Witness ==
    /\ conv.step = "returned"
    /\ conv.unit_type = "Energy"
    /\ conv.from_unit = "eV"
    /\ conv.to_unit = "Ha"
    /\ conv.value = Lit(3, 0)
    /\ Normal(conv.result.val)
    /\ ~EqNum(conv.result.val, conv.value)
    /\ conv.back = Value(Lit(3, 0))
====
